---- MODULE Spec2Model ----
(***************************************************************************)
(* Model of check_asa_sessions.py: one run of the Icinga plugin, from      *)
(* command line parsing in main() to the exit of the process.              *)
(*                                                                         *)
(* Python str and bytes values are sequences of one-character strings, so  *)
(* that split(), int() and the dictionary lookup by model name are         *)
(* computed character by character.  Values stored in the dictionary       *)
(* snmp_check_values carry their Python type in the field k.               *)
(***************************************************************************)
EXTENDS Integers, Sequences, FiniteSets, TLC

\* Operator-supplied thresholds range over -MaxArg .. MaxArg.
MaxArg == 1

\* ------------------------------------------------------------------------
\* Python values
\* ------------------------------------------------------------------------
IntV(n) == [k |-> "int", v |-> n]
StrV(s) == [k |-> "str", v |-> s]
BoolV(b) == [k |-> "bool", v |-> b]
NoneV == [k |-> "none", v |-> 0]

\* truth value of a Python object, as `if x:` computes it
Truthy(x) ==
    CASE x.k = "int" -> x.v # 0
      [] x.k = "bool" -> x.v
      [] x.k = "str" -> Len(x.v) > 0
      [] OTHER -> FALSE

\* an int or bool operand of a comparison (bool is a subclass of int)
IsNum(x) == x.k \in {"int", "bool"}
Num(x) == IF x.k = "bool" THEN (IF x.v THEN 1 ELSE 0) ELSE x.v

\* ------------------------------------------------------------------------
\* str / bytes functions
\* ------------------------------------------------------------------------
Digits == <<"0","1","2","3","4","5","6","7","8","9">>
IsDigit(c) == \E d \in 1..10 : Digits[d] = c
DigitVal(c) == (CHOOSE d \in 1..10 : Digits[d] = c) - 1

\* str(n) for an integer n
RECURSIVE NatStr(_)
NatStr(n) == IF n < 10 THEN <<Digits[n + 1]>>
             ELSE NatStr(n \div 10) \o <<Digits[(n % 10) + 1]>>
Str(n) == IF n < 0 THEN <<"-">> \o NatStr(0 - n) ELSE NatStr(n)

\* The byte 0xFF, which is not valid UTF-8, is the element "xFF".
decodable(b) == \A i \in 1..Len(b) : b[i] # "xFF"

IsSpace(c) == c \in {" ", "\n", "\t"}

\* s.split(): split on runs of whitespace, no empty fields
RECURSIVE SplitWs(_, _, _)
SplitWs(s, i, cur) ==
    IF i > Len(s) THEN (IF Len(cur) = 0 THEN <<>> ELSE <<cur>>)
    ELSE IF IsSpace(s[i])
         THEN (IF Len(cur) = 0 THEN <<>> ELSE <<cur>>) \o SplitWs(s, i + 1, <<>>)
         ELSE SplitWs(s, i + 1, Append(cur, s[i]))
split(s) == SplitWs(s, 1, <<>>)

\* s.split(sep): split on every occurrence of sep, empty fields kept
RECURSIVE SplitSep(_, _, _, _)
SplitSep(s, sep, i, cur) ==
    IF i > Len(s) THEN <<cur>>
    ELSE IF s[i] = sep
         THEN <<cur>> \o SplitSep(s, sep, i + 1, <<>>)
         ELSE SplitSep(s, sep, i + 1, Append(cur, s[i]))
split_sep(s, sep) == SplitSep(s, sep, 1, <<>>)

\* int(s): an optional sign, then digits with single underscores between
IntBody(s) == IF Len(s) > 0 /\ s[1] \in {"+", "-"} THEN Tail(s) ELSE s
int_valid(s) ==
    LET b == IntBody(s) IN
    /\ Len(b) > 0
    /\ \A i \in 1..Len(b) : IsDigit(b[i]) \/ b[i] = "_"
    /\ IsDigit(b[1]) /\ IsDigit(b[Len(b)])
    /\ \A i \in 1..(Len(b) - 1) : ~(b[i] = "_" /\ b[i + 1] = "_")
RECURSIVE IntMag(_, _, _)
IntMag(b, i, acc) ==
    IF i > Len(b) THEN acc
    ELSE IF b[i] = "_" THEN IntMag(b, i + 1, acc)
    ELSE IntMag(b, i + 1, acc * 10 + DigitVal(b[i]))
int(s) ==
    LET m == IntMag(IntBody(s), 1, 0) IN
    IF Len(s) > 0 /\ s[1] = "-" THEN 0 - m ELSE m

RECURSIVE Spaces(_)
Spaces(n) == IF n <= 0 THEN <<>> ELSE <<" ">> \o Spaces(n - 1)
\* '{key:22}': left-justified in a field of 22
ljust22(s) == s \o Spaces(22 - Len(s))
\* '{value:<}': int and bool format as integers, str as itself
format_value(x) == IF x.k = "str" THEN x.v ELSE Str(Num(x))

\* repr() of a bytes object
ReprByte(c, q) ==
    CASE c = "\n" -> <<"\\","n">>
      [] c = "\t" -> <<"\\","t">>
      [] c = "\\" -> <<"\\","\\">>
      [] c = "xFF" -> <<"\\","x","f","f">>
      [] c = q -> <<"\\", q>>
      [] OTHER -> <<c>>
RECURSIVE ReprBody(_, _, _)
ReprBody(b, q, i) == IF i > Len(b) THEN <<>> ELSE ReprByte(b[i], q) \o ReprBody(b, q, i + 1)
bytes_repr(b) ==
    LET has1 == \E i \in 1..Len(b) : b[i] = "'"
        has2 == \E i \in 1..Len(b) : b[i] = "\""
        q == IF has1 /\ ~has2 THEN "\"" ELSE "'"
    IN <<"b", q>> \o ReprBody(b, q, 1) \o <<q>>

\* ------------------------------------------------------------------------
\* Keys and defaults of snmp_check_values
\* ------------------------------------------------------------------------
K_snmp_community == <<"s","n","m","p","_","c","o","m","m","u","n","i","t","y">>
K_snmp_host == <<"s","n","m","p","_","h","o","s","t">>
K_snmp_oid_asa_model == <<"s","n","m","p","_","o","i","d","_","a","s","a","_","m","o","d","e","l">>
K_snmp_oid_asa_sessions == <<"s","n","m","p","_","o","i","d","_","a","s","a","_","s","e","s","s","i","o","n","s">>
K_warning_low == <<"w","a","r","n","i","n","g","_","l","o","w">>
K_warning_high == <<"w","a","r","n","i","n","g","_","h","i","g","h">>
K_critical_low == <<"c","r","i","t","i","c","a","l","_","l","o","w">>
K_critical_high == <<"c","r","i","t","i","c","a","l","_","h","i","g","h">>
K_high_threshold_set == <<"h","i","g","h","_","t","h","r","e","s","h","o","l","d","_","s","e","t">>
K_debug == <<"d","e","b","u","g">>
K_ASA5505 == <<"A","S","A","5","5","0","5">>
K_ASA5510 == <<"A","S","A","5","5","1","0">>
K_ASA5512 == <<"A","S","A","5","5","1","2">>
K_ASA5520 == <<"A","S","A","5","5","2","0">>
K_ASA5540 == <<"A","S","A","5","5","4","0">>
K_ASA5550 == <<"A","S","A","5","5","5","0">>
K_UNKNOWN_MODEL == <<"U","N","K","N","O","W","N","_","M","O","D","E","L">>

OID_ASA_MODEL == <<".","1",".","3",".","6",".","1",".","2",".","1",".","4","7",".","1",".","1",".","1",".","1",".","1","3",".","1">>
OID_ASA_SESSIONS == <<".","1",".","3",".","6",".","1",".","4",".","1",".","9",".","9",".","1","4","7",".","1",".","2",".","2",".","2",".","1",".","5",".","4","0",".","6">>

\* the keys in the order sorted(snmp_check_values.items()) yields them
SortedKeys ==
    << K_ASA5505, K_ASA5510, K_ASA5512, K_ASA5520, K_ASA5540, K_ASA5550,
       K_UNKNOWN_MODEL, K_critical_high, K_critical_low, K_debug,
       K_high_threshold_set, K_snmp_community, K_snmp_host,
       K_snmp_oid_asa_model, K_snmp_oid_asa_sessions, K_warning_high,
       K_warning_low >>
Keys == {SortedKeys[i] : i \in 1..Len(SortedKeys)}

\* the dictionary literal of main()
DefaultValues(a) ==
    [key \in Keys |->
        CASE key = K_snmp_community -> StrV(a.SNMP_COMMUNITY)
          [] key = K_snmp_host -> StrV(a.HOST)
          [] key = K_snmp_oid_asa_model -> StrV(OID_ASA_MODEL)
          [] key = K_snmp_oid_asa_sessions -> StrV(OID_ASA_SESSIONS)
          [] key = K_warning_low -> IntV(0 - 1)
          [] key = K_warning_high -> IntV(50000)
          [] key = K_critical_low -> IntV(0 - 2)
          [] key = K_critical_high -> IntV(100000)
          [] key = K_high_threshold_set -> BoolV(FALSE)
          [] key = K_debug -> BoolV(FALSE)
          [] key = K_ASA5505 -> IntV(10000)
          [] key = K_ASA5510 -> IntV(50000)
          [] key = K_ASA5512 -> IntV(280000)
          [] key = K_ASA5520 -> IntV(280000)
          [] key = K_ASA5540 -> IntV(400000)
          [] key = K_ASA5550 -> IntV(650000)
          [] key = K_UNKNOWN_MODEL -> IntV(800000)]

\* d[key] = value
Set(d, key, value) == [d EXCEPT ![key] = value]

\* "Any thresholds set?": each override is applied when the argument is truthy
ApplyWl(d, a) == IF Truthy(a.wl) THEN Set(d, K_warning_low, a.wl) ELSE d
ApplyCl(d, a) == IF Truthy(a.cl) THEN Set(d, K_critical_low, a.cl) ELSE d
ApplyWarning(d, a) == IF Truthy(a.warning) THEN Set(d, K_warning_high, a.warning) ELSE d
ApplyCritical(d, a) ==
    IF Truthy(a.critical)
    THEN Set(Set(d, K_critical_high, a.critical), K_high_threshold_set, BoolV(TRUE))
    ELSE d
ApplyDebug(d, a) == IF a.debug THEN Set(d, K_debug, BoolV(TRUE)) ELSE d

\* snmp_check_values as main() hands it to check_asa_sessions
BuildValues(a) ==
    ApplyDebug(ApplyCritical(ApplyWarning(ApplyCl(ApplyWl(DefaultValues(a), a), a), a), a), a)

\* ------------------------------------------------------------------------
\* Messages
\* ------------------------------------------------------------------------
VERSION == <<"v","0",".","2">>
LVL_OK == <<"O","K",":">>
LVL_WARNING == <<"W","A","R","N","I","N","G",":">>
LVL_CRITICAL == <<"C","R","I","T","I","C","A","L",":">>
LVL_UNKNOWN == <<"U","N","K","N","O","W","N",":">>
LVL_ERROR == <<"E","R","R","O","R",":">>

\* the diagnostic without the community string
PollErrorMsg_NoCommunity(d) ==
    <<"S","o","m","e","t","h","i","n","g"," ","w","e","n","t"," ","w","r","o","n","g"," ","w","i","t","h"," ","s","u","b","p","r","o","c","e","s","s"," ","c","o","m","m","a","n","d"," ","'","s","n","m","p","w","a","l","k","'">>
    \o <<"\n","I","s"," ","t","h","e"," ","h","o","s","t"," ">> \o d[K_snmp_host].v \o <<" ","r","e","a","c","h","a","b","l","e","?">>
    \o <<"\n","I","s"," ","i","t"," ","c","o","n","f","i","g","u","r","e","d"," ","t","o"," ","a","c","c","e","p","t"," ","S","N","M","P"," ","p","o","l","l","s"," ","f","r","o","m"," ","t","h","i","s"," ","h","o","s","t","?">>
    \o <<"\n","I","s"," ","S","N","M","P"," ","c","o","m","m","u","n","i","t","y"," ","s","t","r","i","n","g"," ","v","a","l","i","d","?">>

PollErrorMsg(d) ==
    <<"S","o","m","e","t","h","i","n","g"," ","w","e","n","t"," ","w","r","o","n","g"," ","w","i","t","h"," ","s","u","b","p","r","o","c","e","s","s"," ","c","o","m","m","a","n","d"," ","'","s","n","m","p","w","a","l","k","'">>
    \o <<"\n","I","s"," ","t","h","e"," ","h","o","s","t"," ">> \o d[K_snmp_host].v \o <<" ","r","e","a","c","h","a","b","l","e","?">>
    \o <<"\n","I","s"," ","i","t"," ","c","o","n","f","i","g","u","r","e","d"," ","t","o"," ","a","c","c","e","p","t"," ","S","N","M","P"," ","p","o","l","l","s"," ","f","r","o","m"," ","t","h","i","s"," ","h","o","s","t","?">>
    \o <<"\n","I","s"," ","S","N","M","P"," ","c","o","m","m","u","n","i","t","y"," ","s","t","r","i","n","g"," ","'">> \o d[K_snmp_community].v \o <<"'"," ","v","a","l","i","d","?">>

ParseErrorMsg == <<"S","o","m","e","t","h","i","n","g"," ","w","e","n","t"," ","w","r","o","n","g"," ","p","a","r","s","i","n","g"," ","d","a","t","a","."," ","P","r","o","b","a","b","l","y"," ","w","r","o","n","g"," ","S","N","M","P"," ","O","I","D"," ","f","o","r"," ","t","h","i","s"," ","d","e","v","i","c","e",".">>

StatusMsg(sessions, model) ==
    <<"C","u","r","r","e","n","t"," ","s","e","s","s","i","o","n","s",":"," ">> \o sessions \o <<" ","M","O","D","E","L",":"," ">> \o model
    \o <<" ","|"," ","c","u","r","r","e","n","t","_","s","e","s","s","i","o","n","s","=">> \o sessions

\* print(a, b): the arguments separated by one space
println2(a, b) == a \o <<" ">> \o b

\* the lines of the debug block
RECURSIVE SettingsLines(_, _)
SettingsLines(d, i) ==
    IF i > Len(SortedKeys) THEN <<>>
    ELSE << <<" "," ">> \o ljust22(SortedKeys[i]) \o <<" ",":"," "," ">> \o format_value(d[SortedKeys[i]]) >>
         \o SettingsLines(d, i + 1)
DebugLines(d, raw_sessions, sessions, raw_model, model) ==
    << <<"\n"," ","/","/"," ","D","E","B","U","G",":"," ","s","e","t","t","i","n","g","s"," ","/","/","\n">> >>
    \o SettingsLines(d, 1)
    \o << <<>> >>
    \o << <<"\n"," ","/","/"," ","D","E","B","U","G",":"," ","c","o","m","m","a","n","d"," ","o","u","t","p","u","t"," ","/","/","\n">> >>
    \o << println2(<<" ","R","a","w"," ","d","a","t","a",":","\n"," ">>, bytes_repr(raw_sessions)) >>
    \o << println2(<<" ","P","a","r","s","e","d"," ","t","o",":","\n"," ">>, sessions) >>
    \o << println2(<<"\n"," ","R","a","w"," ","d","a","t","a",":","\n"," ">>, bytes_repr(raw_model)) >>
    \o << println2(<<" ","P","a","r","s","e","d"," ","t","o",":","\n"," ">>, model) >>
    \o << <<>> >>

\* ------------------------------------------------------------------------
\* Inputs: command lines and responses of snmpwalk
\* ------------------------------------------------------------------------
ArgInts == {NoneV} \cup {IntV(n) : n \in (0 - MaxArg)..MaxArg}
Hosts == { <<"f","w","1">> }
Communities == { <<"p","u","b">> }
\* --debug is combined with every -c, and with no other threshold option
Args ==
    [wl : ArgInts, cl : ArgInts, warning : ArgInts, critical : ArgInts,
     debug : {FALSE}, SNMP_COMMUNITY : Communities, HOST : Hosts]
    \cup
    [wl : {NoneV}, cl : {NoneV}, warning : {NoneV}, critical : ArgInts,
     debug : {TRUE}, SNMP_COMMUNITY : Communities, HOST : Hosts]

\* one response line of snmpwalk: "<oid> = <type>: <value>\n"
GaugeLine(value) == <<"o","i","d"," ","="," ","G","a","u","g","e","3","2",":"," ">> \o value \o <<"\n">>
StringLine(value) == <<"o","i","d"," ","="," ","S","T","R","I","N","G",":"," ","\"">> \o value \o <<"\"","\n">>

SessionCounts ==
    ((0 - MaxArg - 2)..(MaxArg + 1))
    \cup {10000, 49999, 50000, 100000, 280000, 800000}
SessionOutputs ==
    {GaugeLine(Str(n)) : n \in SessionCounts}
    \cup { <<"o","i","d"," ","="," ","N","o"," ","S","u","c","h"," ","O","b","j","e","c","t"," ","a","v","a","i","l","a","b","l","e"," ","o","n"," ","t","h","i","s"," ","a","g","e","n","t"," ","a","t"," ","t","h","i","s"," ","O","I","D","\n">>,
           <<"o","i","d"," ","="," ","G","a","u","g","e","3","2",":","\n">>,
           <<"o","i","d"," ","="," ","G","a","u","g","e","3","2",":"," ","1">> \o <<"xFF">> \o <<"\n">> }

ModelNames ==
    { K_ASA5505, K_ASA5510, K_ASA5520, K_ASA5550, <<"A","S","A","5","5","8","5">>,
      K_warning_low, K_critical_high, K_debug, K_snmp_host }
ModelOutputs ==
    {StringLine(m) : m \in ModelNames}
    \cup { <<"o","i","d"," ","="," ","S","T","R","I","N","G",":"," ","A","S","A","5","5","0","5","\n">>,
           <<"o","i","d"," ","="," ","S","T","R","I","N","G",":"," ","\"","A","S","A"," ","5","5","0","5","\"","\n">> }

\* ------------------------------------------------------------------------
\* State
\* ------------------------------------------------------------------------
VARIABLES
    pc,                       \* the statement the run is at
    args,                     \* the parsed command line
    snmp_check_values,        \* the configuration dictionary
    command_output_sessions,  \* raw response of the first poll
    command_output_model,     \* raw response of the second poll
    current_asa_sessions,     \* parsed session count token (a str)
    asa_model,                \* parsed model name
    stdout,                   \* the texts printed, one per print() call
    exit_code,                \* the exit status of the process, Running before
    exception                 \* the uncaught exception that ended the run

vars == << pc, args, snmp_check_values, command_output_sessions,
           command_output_model, current_asa_sessions, asa_model, stdout,
           exit_code, exception >>

Running == 0 - 1
NoException == "none"
NoArgs == [wl |-> NoneV, cl |-> NoneV, warning |-> NoneV, critical |-> NoneV,
           debug |-> FALSE, SNMP_COMMUNITY |-> <<>>, HOST |-> <<>>]

Init ==
    /\ pc = "main"
    /\ args = NoArgs
    /\ snmp_check_values = DefaultValues(NoArgs)
    /\ command_output_sessions = <<>>
    /\ command_output_model = <<>>
    /\ current_asa_sessions = <<>>
    /\ asa_model = <<>>
    /\ stdout = <<>>
    /\ exit_code = Running
    /\ exception = NoException

\* ok(msg), warning(msg), critical(msg), unknown(msg), error(msg):
\* print the level and the message, then sys.exit(code)
Report(out, level, msg, code) ==
    /\ stdout' = Append(out, println2(level, msg))
    /\ exit_code' = code
    /\ exception' = NoException
ok(out, msg) == Report(out, LVL_OK, msg, 0)
warning(out, msg) == Report(out, LVL_WARNING, msg, 1)
critical(out, msg) == Report(out, LVL_CRITICAL, msg, 2)
unknown(out, msg) == Report(out, LVL_UNKNOWN, msg, 3)
error(out, msg) == Report(out, LVL_ERROR, msg, 3)

\* an exception nobody catches: traceback on stderr, exit status 1
Raise(out, e) ==
    /\ exception' = e
    /\ exit_code' = 1
    /\ stdout' = out

\* the function returns and the interpreter exits with status 0
ReturnNormally(out) ==
    /\ exit_code' = 0
    /\ stdout' = out
    /\ UNCHANGED exception

\* ------------------------------------------------------------------------
\* main()
\* ------------------------------------------------------------------------
\* parse_args() succeeds; the dictionary is built and the overrides applied
Main ==
    /\ pc = "main" /\ exit_code = Running
    /\ \E a \in Args :
        /\ args' = a
        /\ snmp_check_values' = BuildValues(a)
    /\ pc' = "poll_sessions"
    /\ UNCHANGED << command_output_sessions, command_output_model,
                    current_asa_sessions, asa_model, stdout, exit_code, exception >>

\* --version: argparse prints the version and exits with status 0
MainVersion ==
    /\ pc = "main" /\ exit_code = Running
    /\ stdout' = Append(stdout, VERSION)
    /\ exit_code' = 0
    /\ UNCHANGED << pc, args, snmp_check_values, command_output_sessions,
                    command_output_model, current_asa_sessions, asa_model, exception >>

\* a missing positional or a non-integer threshold: usage on stderr, status 2
MainUsageError ==
    /\ pc = "main" /\ exit_code = Running
    /\ exit_code' = 2
    /\ UNCHANGED << pc, args, snmp_check_values, command_output_sessions,
                    command_output_model, current_asa_sessions, asa_model,
                    stdout, exception >>

\* ------------------------------------------------------------------------
\* check_asa_sessions()
\* ------------------------------------------------------------------------
\* first subprocess.check_output returns
PollSessions ==
    /\ pc = "poll_sessions" /\ exit_code = Running
    /\ \E out \in SessionOutputs : command_output_sessions' = out
    /\ pc' = "poll_model"
    /\ UNCHANGED << args, snmp_check_values, command_output_model,
                    current_asa_sessions, asa_model, stdout, exit_code, exception >>

\* first subprocess.check_output raises: the bare except reports the error
PollSessionsFails ==
    /\ pc = "poll_sessions" /\ exit_code = Running
    /\ error(stdout, PollErrorMsg(snmp_check_values))
    /\ UNCHANGED << pc, args, snmp_check_values, command_output_sessions,
                    command_output_model, current_asa_sessions, asa_model >>

\* second subprocess.check_output returns
PollModel ==
    /\ pc = "poll_model" /\ exit_code = Running
    /\ \E out \in ModelOutputs : command_output_model' = out
    /\ pc' = "parse"
    /\ UNCHANGED << args, snmp_check_values, command_output_sessions,
                    current_asa_sessions, asa_model, stdout, exit_code, exception >>

\* second subprocess.check_output raises
PollModelFails ==
    /\ pc = "poll_model" /\ exit_code = Running
    /\ error(stdout, PollErrorMsg(snmp_check_values))
    /\ UNCHANGED << pc, args, snmp_check_values, command_output_sessions,
                    command_output_model, current_asa_sessions, asa_model >>

\* the statements of the second try block raise nothing
SessionsParse(raw) == decodable(raw) /\ Len(split(raw)) >= 4
ModelParse(raw) ==
    /\ decodable(raw)
    /\ Len(split(raw)) >= 4
    /\ Len(split_sep(split(raw)[4], "\"")) >= 2
ParseSucceeds(raw_sessions, raw_model) ==
    SessionsParse(raw_sessions) /\ ModelParse(raw_model)

\* second try block: field 3 of each response, the model between quotes
Parse ==
    /\ pc = "parse" /\ exit_code = Running
    /\ IF ParseSucceeds(command_output_sessions, command_output_model)
       THEN /\ current_asa_sessions' = split(command_output_sessions)[4]
            /\ asa_model' = split_sep(split(command_output_model)[4], "\"")[2]
            /\ pc' = "resolve"
            /\ UNCHANGED << stdout, exit_code, exception >>
       ELSE /\ error(stdout, ParseErrorMsg)
            /\ UNCHANGED << pc, current_asa_sessions, asa_model >>
    /\ UNCHANGED << args, snmp_check_values, command_output_sessions,
                    command_output_model >>

\* the model's ceiling applied although 'critical high' was set manually
ResolvedValues_IgnoreFlag(d, model) ==
    IF model \in Keys /\ Truthy(d[model])
    THEN Set(d, K_critical_high, d[model])
    ELSE Set(d, K_critical_high, d[K_UNKNOWN_MODEL])

\* the 'critical high' threshold the model determines
ResolvedValues(d, model) ==
    IF d[K_high_threshold_set].v = FALSE
    THEN IF Truthy(d[model])
         THEN Set(d, K_critical_high, d[model])
         ELSE Set(d, K_critical_high, d[K_UNKNOWN_MODEL])
    ELSE d

\* snmp_check_values[asa_model] raises KeyError
ResolveRaises(d, model) == d[K_high_threshold_set].v = FALSE /\ model \notin Keys

Resolve ==
    /\ pc = "resolve" /\ exit_code = Running
    /\ IF ResolveRaises(snmp_check_values, asa_model)
       THEN /\ Raise(stdout, "KeyError")
            /\ UNCHANGED << pc, snmp_check_values >>
       ELSE /\ snmp_check_values' = ResolvedValues(snmp_check_values, asa_model)
            /\ pc' = "classify"
            /\ UNCHANGED << stdout, exit_code, exception >>
    /\ UNCHANGED << args, command_output_sessions, command_output_model,
                    current_asa_sessions, asa_model >>

\* DEBUG OUTPUT: what the debug block prints
DebugOutput(d, raw_sessions, sessions, raw_model, model) ==
    IF d[K_debug].v = TRUE
    THEN DebugLines(d, raw_sessions, sessions, raw_model, model)
    ELSE <<>>

\* The guards of the five if statements; each is evaluated only when the
\* statements before it did not exit.
Guard1(x, d) == x <= Num(d[K_critical_low])
\* the low warning band without its upper boundary
Guard2_Strict(x, d) == Num(d[K_critical_low]) < x /\ x < Num(d[K_warning_low])
Guard2(x, d) == Num(d[K_critical_low]) < x /\ x <= Num(d[K_warning_low])
Guard3(x, d) == Num(d[K_warning_low]) < x /\ x < Num(d[K_warning_high])
\* the high warning band without its lower boundary
Guard4_Strict(x, d) == Num(d[K_warning_high]) < x /\ x < Num(d[K_critical_high])
Guard4(x, d) == Num(d[K_warning_high]) <= x /\ x < Num(d[K_critical_high])
\* the high critical band without its boundary
Guard5_Strict(x, d) == x > Num(d[K_critical_high])
Guard5(x, d) == x >= Num(d[K_critical_high])

\* What the threshold evaluation of the token s does: a verdict, an
\* exception, or "none" when every guard is false.
Evaluate(s, d) ==
    IF ~int_valid(s) THEN "ValueError"
    ELSE LET x == int(s) IN
         IF Guard1(x, d) THEN "CRITICAL"
         ELSE IF Guard2(x, d) THEN "WARNING"
         ELSE IF Guard3(x, d) THEN "OK"
         ELSE IF Num(d[K_warning_high]) <= x /\ ~IsNum(d[K_critical_high]) THEN "TypeError"
         ELSE IF IsNum(d[K_critical_high]) /\ Guard4(x, d) THEN "WARNING"
         ELSE IF ~IsNum(d[K_critical_high]) THEN "TypeError"
         ELSE IF Guard5(x, d) THEN "CRITICAL"
         ELSE "none"

\* debug output, the message, then the five guarded statements
Classify ==
    /\ pc = "classify" /\ exit_code = Running
    /\ LET out == stdout \o DebugOutput(snmp_check_values, command_output_sessions,
                                        current_asa_sessions, command_output_model,
                                        asa_model)
           msg == StatusMsg(current_asa_sessions, asa_model)
           r == Evaluate(current_asa_sessions, snmp_check_values)
       IN CASE r = "OK" -> ok(out, msg)
            [] r = "WARNING" -> warning(out, msg)
            [] r = "CRITICAL" -> critical(out, msg)
            [] r = "none" -> ReturnNormally(out)
            [] OTHER -> Raise(out, r)
    /\ UNCHANGED << pc, args, snmp_check_values, command_output_sessions,
                    command_output_model, current_asa_sessions, asa_model >>

Next ==
    \/ Main
    \/ MainVersion
    \/ MainUsageError
    \/ PollSessions
    \/ PollSessionsFails
    \/ PollModel
    \/ PollModelFails
    \/ Parse
    \/ Resolve
    \/ Classify

Spec == Init /\ [][Next]_vars

\* ------------------------------------------------------------------------
\* Properties
\* ------------------------------------------------------------------------
Terminated == exit_code # Running

StartsWith(s, p) == Len(s) >= Len(p) /\ SubSeq(s, 1, Len(p)) = p
Contains(s, sub) ==
    \E i \in 0..(Len(s) - Len(sub)) : SubSeq(s, i + 1, i + Len(sub)) = sub

\* a print() call wrote a line that starts with the level
Printed(level) == \E i \in 1..Len(stdout) : StartsWith(stdout[i], level)
IsVerdictLine(line) ==
    StartsWith(line, LVL_OK) \/ StartsWith(line, LVL_WARNING) \/ StartsWith(line, LVL_CRITICAL)
VerdictLines == {i \in 1..Len(stdout) : IsVerdictLine(stdout[i])}
VerdictPrinted == VerdictLines # {}
LastLineIs(level) == Len(stdout) > 0 /\ StartsWith(stdout[Len(stdout)], level)

\* the thresholds in force and the session count as integers
CriticalLow == Num(snmp_check_values[K_critical_low])
WarningLow == Num(snmp_check_values[K_warning_low])
WarningHigh == Num(snmp_check_values[K_warning_high])
CriticalHigh == Num(snmp_check_values[K_critical_high])
SessionCount == int(current_asa_sessions)
HighThresholdSet == snmp_check_values[K_high_threshold_set].v = TRUE

\* the session count token is an integer and so is every threshold
NumericRun == int_valid(current_asa_sessions) /\ IsNum(snmp_check_values[K_critical_high])

\* the five bands as the specification lists them
Band(i, x, cl, wl, wh, ch) ==
    CASE i = 1 -> x <= cl
      [] i = 2 -> cl < x /\ x <= wl
      [] i = 3 -> wl < x /\ x < wh
      [] i = 4 -> wh <= x /\ x < ch
      [] OTHER -> x >= ch
BandLevel(i) ==
    CASE i \in {1, 5} -> LVL_CRITICAL
      [] i \in {2, 4} -> LVL_WARNING
      [] OTHER -> LVL_OK
BandCode(i) == CASE i \in {1, 5} -> 2 [] i \in {2, 4} -> 1 [] OTHER -> 0
BandHolds(i) == Band(i, SessionCount, CriticalLow, WarningLow, WarningHigh, CriticalHigh)
Ordered == CriticalLow < WarningLow /\ WarningLow < WarningHigh /\ WarningHigh < CriticalHigh

\* the model defaults table of the specification
ModelTable == {K_ASA5505, K_ASA5510, K_ASA5512, K_ASA5520, K_ASA5540, K_ASA5550}
ModelCeiling(m) ==
    CASE m = K_ASA5505 -> 10000
      [] m = K_ASA5510 -> 50000
      [] m \in {K_ASA5512, K_ASA5520} -> 280000
      [] m = K_ASA5540 -> 400000
      [] OTHER -> 650000
TableCeilings == {10000, 50000, 280000, 400000, 650000, 800000}

\* C1: for an integer session count and integer thresholds, the verdict
\* reported is that of the first band, in the order 1..5, whose guard is
\* true; and when critical_low < warning_low < warning_high < critical_high
\* exactly one band's guard is true, boundary values included.
C1_FirstBandWins ==
    (pc = "classify" /\ Terminated /\ NumericRun) =>
        /\ \A i \in 1..5 :
              (BandHolds(i) /\ \A j \in 1..(i - 1) : ~BandHolds(j)) =>
                  (LastLineIs(BandLevel(i)) /\ exit_code = BandCode(i))
        /\ Ordered => Cardinality({i \in 1..5 : BandHolds(i)}) = 1

\* ordered thresholds, the session count on the warning_high boundary
C1_Witness ==
    /\ pc = "classify" /\ Terminated /\ NumericRun
    /\ Ordered
    /\ SessionCount = WarningHigh
    /\ LastLineIs(LVL_WARNING) /\ exit_code = 1

\* C2: without an explicit critical-high override, a model that is absent
\* from the model defaults table does not make the run fail: critical_high
\* becomes the fallback ceiling 800000 and classification proceeds; a model
\* in the table gives that model's ceiling.
C2_UnknownModelFallsBack ==
    /\ (pc = "resolve" /\ args.critical.k = "none" /\ asa_model \notin ModelTable) =>
          exception = NoException
    /\ (pc = "classify" /\ args.critical.k = "none" /\ asa_model \notin ModelTable) =>
          /\ snmp_check_values[K_critical_high].k = "int"
          /\ snmp_check_values[K_critical_high].v = 800000
    /\ (pc = "classify" /\ args.critical.k = "none" /\ asa_model \in ModelTable) =>
          /\ snmp_check_values[K_critical_high].k = "int"
          /\ snmp_check_values[K_critical_high].v = ModelCeiling(asa_model)

\* C3: when either poll fails the run ends with exit status 3 and one ERROR
\* message that contains the host and the community string, and no OK,
\* WARNING or CRITICAL line is printed; such a line is printed only after
\* both polls and both parses succeeded.
C3_PollFailureIsFatal ==
    /\ (pc \in {"poll_sessions", "poll_model"} /\ Terminated) =>
          /\ exit_code = 3
          /\ Len(stdout) = 1
          /\ StartsWith(stdout[1], LVL_ERROR)
          /\ Contains(stdout[1], args.HOST)
          /\ Contains(stdout[1], args.SNMP_COMMUNITY)
          /\ ~VerdictPrinted
    /\ VerdictPrinted =>
          /\ pc = "classify"
          /\ decodable(command_output_sessions) /\ decodable(command_output_model)
          /\ Len(split(command_output_sessions)) >= 4
          /\ Len(split(command_output_model)) >= 4
          /\ current_asa_sessions = split(command_output_sessions)[4]
          /\ Contains(split(command_output_model)[4], <<"\"">> \o asa_model)

\* the session poll succeeded and the model poll failed
C3_Witness ==
    /\ pc = "poll_model" /\ exit_code = 3
    /\ Len(command_output_sessions) > 0
    /\ Printed(LVL_ERROR)

\* a response that does not have the expected shape
TooFewFields(raw) == Len(split(raw)) < 4
Malformed(raw_sessions, raw_model) ==
    \/ ~decodable(raw_sessions) \/ ~decodable(raw_model)
    \/ TooFewFields(raw_sessions) \/ TooFewFields(raw_model)
    \/ ~int_valid(split(raw_sessions)[4])
    \/ ~Contains(split(raw_model)[4], <<"\"">>)

\* C4: when both polls succeeded and a response cannot be parsed (too few
\* fields, a session count that is not numeric, a model field without a
\* quoted substring), the run ends with the ERROR 'wrong SNMP OID' message
\* and exit status 3, and never goes on to resolution or classification.
C4_MalformedIsParseError ==
    (pc \in {"parse", "resolve", "classify"}
     /\ Malformed(command_output_sessions, command_output_model)) =>
        /\ pc = "parse"
        /\ Terminated =>
              /\ exit_code = 3
              /\ stdout = << println2(LVL_ERROR, ParseErrorMsg) >>

\* the bound a threshold option is to give: the option's value, else the default
Expected(opt, default) == IF opt.k = "int" THEN opt.v ELSE default

\* C5: before acquisition every bound equals the value of its option
\* (-wl, -cl, -w, -c) when the option was given, zero and negative values
\* included, and its default otherwise; -c also sets high_threshold_set.
C5_OverridesApplied ==
    pc = "poll_sessions" =>
        /\ WarningLow = Expected(args.wl, 0 - 1)
        /\ CriticalLow = Expected(args.cl, 0 - 2)
        /\ WarningHigh = Expected(args.warning, 50000)
        /\ CriticalHigh = Expected(args.critical, 100000)
        /\ HighThresholdSet <=> (args.critical.k = "int")

\* C6: when high_threshold_set is true the critical_high used for
\* classification is the operator's value, whatever model the device names.
C6_ExplicitCriticalWins ==
    (pc = "classify" /\ HighThresholdSet) =>
        /\ args.critical.k = "int"
        /\ snmp_check_values[K_critical_high].k = "int"
        /\ snmp_check_values[K_critical_high].v = args.critical.v

\* an explicit critical_high below the ceiling of the model polled
C6_Witness ==
    /\ pc = "classify" /\ HighThresholdSet
    /\ asa_model = K_ASA5505
    /\ CriticalHigh = 1

\* C7: a run of check_asa_sessions ends with an exit status in 0..3 that
\* matches the level line it printed: 0 with OK, 1 with WARNING, 2 with
\* CRITICAL, 3 with UNKNOWN or ERROR.
C7_ExitCodeMatchesLevel ==
    (pc # "main" /\ Terminated) =>
        /\ exit_code \in 0..3
        /\ exit_code = 0 => Printed(LVL_OK)
        /\ exit_code = 1 => Printed(LVL_WARNING)
        /\ exit_code = 2 => Printed(LVL_CRITICAL)
        /\ exit_code = 3 => (Printed(LVL_UNKNOWN) \/ Printed(LVL_ERROR))

\* C8: with an integer session count and integer thresholds in any order, at
\* least one band guard is true, and the run ends with exactly one verdict
\* line and no exception.
C8_ExactlyOneVerdict ==
    (pc = "classify" /\ NumericRun) =>
        /\ \E i \in 1..5 : BandHolds(i)
        /\ Terminated =>
              /\ Cardinality(VerdictLines) = 1
              /\ exception = NoException
              /\ exit_code \in 0..2

\* out-of-order thresholds: critical_low >= warning_low, warning_high > critical_high
C8_Witness ==
    /\ pc = "classify" /\ Terminated /\ NumericRun
    /\ CriticalLow >= WarningLow
    /\ WarningHigh > CriticalHigh
    /\ WarningHigh <= CriticalLow
    /\ Cardinality(VerdictLines) = 1

\* no threshold option on the command line
NoOverrides ==
    /\ args.wl.k = "none" /\ args.cl.k = "none"
    /\ args.warning.k = "none" /\ args.critical.k = "none"

\* C9: with no overrides and a model of the model defaults table, every
\* session count at or above the model's ceiling is CRITICAL.
C9_CeilingIsCritical ==
    (pc = "classify" /\ Terminated /\ NoOverrides /\ asa_model \in ModelTable
     /\ int_valid(current_asa_sessions)
     /\ SessionCount >= ModelCeiling(asa_model)) =>
        (LastLineIs(LVL_CRITICAL) /\ exit_code = 2)

\* C9 as amended: with no overrides and a model of the model defaults table,
\* every session count at or above both the model's ceiling and the default
\* warning_high is CRITICAL.
C9_CeilingAboveWarningIsCritical ==
    (pc = "classify" /\ Terminated /\ NoOverrides /\ asa_model \in ModelTable
     /\ int_valid(current_asa_sessions)
     /\ SessionCount >= ModelCeiling(asa_model)
     /\ SessionCount >= WarningHigh) =>
        (LastLineIs(LVL_CRITICAL) /\ exit_code = 2)

\* the smallest model at the default warning_high, above its ceiling
C9_Witness ==
    /\ pc = "classify" /\ Terminated /\ NoOverrides
    /\ asa_model = K_ASA5505
    /\ int_valid(current_asa_sessions) /\ SessionCount = 50000
    /\ LastLineIs(LVL_CRITICAL) /\ exit_code = 2

\* C10: when high_threshold_set is false the critical_high used for
\* classification is one of the ceilings of the model defaults table,
\* whatever string the device returns as its model.
C10_CeilingFromTable ==
    (pc = "classify" /\ ~HighThresholdSet) =>
        /\ snmp_check_values[K_critical_high].k = "int"
        /\ snmp_check_values[K_critical_high].v \in TableCeilings


====
